---- MODULE Spec2Model ----
(***************************************************************************)
(* Model of the caching subsystem of clara-server:                         *)
(*   src/caching/response_cache.py   MemoryCache, RedisCache, ResponseCache *)
(*   src/caching/request_deduper.py  RequestDeduplicator                    *)
(* The scheduler is the asyncio event loop: one action of the model is the  *)
(* code a coroutine runs between two suspension points.                     *)
(***************************************************************************)
EXTENDS Integers, Sequences, FiniteSets, TLC

\* ------------------------------------------------------------------ bounds
MaxCalls == 2       \* calls made to the ResponseCache in one run, each by its own coroutine
MaxTime == 1        \* clock ticks (seconds) the run covers
maxsize == 1        \* MemoryCache capacity (a constructor parameter)
MaxTasks == 2       \* asyncio tasks the deduplicator creates in one run
MaxDedupCalls == 3  \* deduplicate() calls made in one run, each by its own coroutine
MemMaxsize == 2     \* capacity of a MemoryCache used on its own
MaxMemOps == 5      \* calls made to that MemoryCache in one run
MaxKwargs == 3      \* keyword arguments in one call of CacheKey.generate
MaxRaceCalls == 3   \* calls made in one run of the invalidation race
MaxClears == 1      \* requests made to DELETE /api/cache/clear in one run

default_ttl == 3600

Procs == 1..MaxCalls
\* every caller there is; the third makes its call only in the invalidation race
Callers == 1..MaxRaceCalls
DProcs == 1..MaxDedupCalls
Keys == {"a", "b"}
NoneV == "None"
\* values a compute_fn can return: None, a string, a tuple (which JSON turns
\* into a list) and an object json.dumps cannot serialize
Values == {NoneV, "v1", "tup", "obj"}
Raise == "raise"
\* the <<ttl_memory, ttl_redis>> a call site passes
Ttls == {<<0, 0>>, <<1, 1>>}
Patterns == {"", "a*", "*"}

VARIABLES
    now,                \* datetime.now().timestamp()
    _cache,             \* MemoryCache._cache: key -> (value, timestamp, ttl)
    _access_order,      \* MemoryCache._access_order
    REDIS_AVAILABLE,    \* whether "import redis.asyncio" succeeded
    _redis,             \* RedisCache._redis is set
    _connected,         \* RedisCache._connected
    store_up,           \* the Redis server answers
    store,              \* the Redis server's keys: key -> (data, expire_at)
    _stats,             \* ResponseCache._stats
    startup,            \* startup_event: ResponseCache.initialize
    calls,              \* per caller: its call to the ResponseCache
    _pending_requests,  \* RequestDeduplicator._pending_requests: key -> task
    _request_counts,    \* RequestDeduplicator._request_counts
    tasks,              \* the asyncio tasks created by deduplicate
    dcalls,             \* per caller: its call to deduplicate
    memcall,            \* a MemoryCache used on its own: its last call
    keygen,             \* the last call of CacheKey.generate
    http                \* main.py: the last response of DELETE /api/cache/clear

cacheVars == <<now, _cache, _access_order, REDIS_AVAILABLE, _redis, _connected,
               store_up, store, _stats, startup, calls>>
dedupVars == <<_pending_requests, _request_counts, tasks, dcalls>>
unitVars == <<memcall, keygen, http>>
vars == <<cacheVars, dedupVars, unitVars>>

\* ------------------------------------------------------------ finite maps
EmptyMap == [x \in {} |-> 0]
MapSet(m, k, v) == [x \in DOMAIN m \cup {k} |-> IF x = k THEN v ELSE m[x]]
MapDel(m, k) == [x \in DOMAIN m \ {k} |-> m[x]]

\* list.remove(x): drops the first occurrence
RECURSIVE ListRemove(_, _)
ListRemove(s, x) ==
    IF s = <<>> THEN <<>>
    ELSE IF Head(s) = x THEN Tail(s)
    ELSE <<Head(s)>> \o ListRemove(Tail(s), x)

InList(s, x) == \E i \in 1..Len(s) : s[i] = x

\* ------------------------------------------------------------ MemoryCache
\* the tier as a value: M.cache is _cache, M.order is _access_order
Mem(c, o) == [cache |-> c, order |-> o]

MemoryGet_noTouch(M, k, t) ==
    IF k \notin DOMAIN M.cache
    THEN [mem |-> M, value |-> NoneV]
    ELSE IF t - M.cache[k].timestamp > M.cache[k].ttl
    THEN [mem |-> Mem(MapDel(M.cache, k),
                      IF InList(M.order, k) THEN ListRemove(M.order, k) ELSE M.order),
          value |-> NoneV]
    ELSE [mem |-> M, value |-> M.cache[k].value]

MemoryGet_ttlExclusive(M, k, t) ==
    IF k \notin DOMAIN M.cache
    THEN [mem |-> M, value |-> NoneV]
    ELSE IF t - M.cache[k].timestamp >= M.cache[k].ttl
    THEN [mem |-> Mem(MapDel(M.cache, k),
                      IF InList(M.order, k) THEN ListRemove(M.order, k) ELSE M.order),
          value |-> NoneV]
    ELSE [mem |-> Mem(M.cache,
                      Append(IF InList(M.order, k) THEN ListRemove(M.order, k) ELSE M.order, k)),
          value |-> M.cache[k].value]

MemoryGet(M, k, t) ==
    IF k \notin DOMAIN M.cache
    THEN [mem |-> M, value |-> NoneV]
    ELSE IF t - M.cache[k].timestamp > M.cache[k].ttl
    THEN [mem |-> Mem(MapDel(M.cache, k),
                      IF InList(M.order, k) THEN ListRemove(M.order, k) ELSE M.order),
          value |-> NoneV]
    ELSE [mem |-> Mem(M.cache,
                      Append(IF InList(M.order, k) THEN ListRemove(M.order, k) ELSE M.order, k)),
          value |-> M.cache[k].value]

\* the eviction loop of set; raised models list.pop(0) on an empty list
Evict_never(M, size) == [mem |-> M, raised |-> FALSE]

\* size is self.maxsize
RECURSIVE Evict(_, _)
Evict(M, size) ==
    IF Cardinality(DOMAIN M.cache) <= size THEN [mem |-> M, raised |-> FALSE]
    ELSE IF M.order = <<>> THEN [mem |-> M, raised |-> TRUE]
    ELSE Evict(Mem(IF Head(M.order) \in DOMAIN M.cache
                   THEN MapDel(M.cache, Head(M.order)) ELSE M.cache,
                   Tail(M.order)), size)

MemorySet(M, size, k, v, ttl, t) ==
    Evict(Mem(MapSet(M.cache, k, [value |-> v, timestamp |-> t, ttl |-> ttl]),
              Append(IF InList(M.order, k) THEN ListRemove(M.order, k) ELSE M.order, k)),
          size)

MemoryInvalidate_keepEntry(M, k) ==
    Mem(M.cache, IF InList(M.order, k) THEN ListRemove(M.order, k) ELSE M.order)

MemoryInvalidate(M, k) ==
    Mem(IF k \in DOMAIN M.cache THEN MapDel(M.cache, k) ELSE M.cache,
        IF InList(M.order, k) THEN ListRemove(M.order, k) ELSE M.order)

MemoryClear_keepOrder(M) == Mem(EmptyMap, M.order)

MemoryClear(M) == Mem(EmptyMap, <<>>)

\* ------------------------------------------------------- JSON conversion
\* json.dumps(value): an object of a class json does not know raises TypeError
JsonDumps(v) ==
    CASE v = NoneV -> "null"
      [] v = "v1" -> "\"v1\""
      [] v \in {"tup", "lst"} -> "[1, 2]"
      [] OTHER -> "TypeError"

\* json.loads(data): bytes that are not JSON raise JSONDecodeError
JsonLoads(d) ==
    CASE d = "null" -> NoneV
      [] d = "\"v1\"" -> "v1"
      [] d = "[1, 2]" -> "lst"
      [] OTHER -> "JSONDecodeError"

\* ------------------------------------------------------------- RedisCache
\* what one RedisCache method did: ready (the guard let it through),
\* contacted (a command was sent to the server), failed (the command, or the
\* (de)serialization, raised inside the method), ret (the value returned),
\* raised (an exception left the method)
Outcome(op, ready, contacted, failed, ret, raised) ==
    [op |-> op, ready |-> ready, contacted |-> contacted, failed |-> failed,
     ret |-> ret, raised |-> raised]

Sentinel(op) ==
    CASE op = "connect" -> "False"
      [] op = "get" -> NoneV
      [] op = "set" -> "False"
      [] op = "invalidate" -> "False"
      [] op = "clear_pattern" -> "0"

\* "if not self._connected or not self._redis" is false
RedisReady == _connected /\ _redis

\* the server holds k (Redis drops a key when its TTL has run out)
Live(k) == k \in DOMAIN store /\ now < store[k].expire_at

\* the same of a server with keys st at time t
LiveIn(st, t, k) == k \in DOMAIN st /\ t < st[k].expire_at

NotReady(op) == Outcome(op, FALSE, FALSE, FALSE, Sentinel(op), FALSE)

\* the "except Exception" handlers: log and return the sentinel
ConnectExcept == Outcome("connect", TRUE, TRUE, TRUE, "False", FALSE)

RedisGetExcept_reraise == Outcome("get", TRUE, TRUE, TRUE, NoneV, TRUE)
RedisGetExcept == Outcome("get", TRUE, TRUE, TRUE, NoneV, FALSE)

RedisSetExcept(contacted) == Outcome("set", TRUE, contacted, TRUE, "False", FALSE)

RedisInvalidateExcept == Outcome("invalidate", TRUE, TRUE, TRUE, "False", FALSE)

ClearPatternExcept == Outcome("clear_pattern", TRUE, TRUE, TRUE, "0", FALSE)

\* RedisCache.get once "await self._redis.get(key)" has answered
RedisGetReply(k) ==
    IF ~store_up THEN RedisGetExcept
    ELSE IF ~Live(k) THEN Outcome("get", TRUE, TRUE, FALSE, NoneV, FALSE)
    ELSE IF JsonLoads(store[k].data) = "JSONDecodeError" THEN RedisGetExcept
    ELSE Outcome("get", TRUE, TRUE, FALSE, JsonLoads(store[k].data), FALSE)

\* "ttl_seconds = ttl or self.default_ttl"
TtlSeconds(ttl) == IF ttl = 0 THEN default_ttl ELSE ttl

\* RedisCache.set once "await self._redis.setex(...)" has answered
RedisSetReply == 
    IF ~store_up THEN RedisSetExcept(TRUE)
    ELSE Outcome("set", TRUE, TRUE, FALSE, "True", FALSE)

\* the server after SETEX key ttl_seconds data
StoreSetex(k, ttl_seconds, data) ==
    MapSet(store, k, [data |-> data, expire_at |-> now + ttl_seconds])

\* RedisCache.invalidate once "await self._redis.delete(key)" has answered
RedisInvalidateReply(k) ==
    IF ~store_up THEN RedisInvalidateExcept
    ELSE Outcome("invalidate", TRUE, TRUE, FALSE,
                 IF Live(k) THEN "True" ELSE "False", FALSE)

\* redis glob patterns over the model's keys
Match(pattern, k) ==
    CASE pattern = "*" -> TRUE
      [] pattern = "a*" -> k = "a"
      [] OTHER -> FALSE

ScanIter_all(pattern) == {k \in Keys : Live(k)}

\* the keys scan_iter(match=pattern) yields
ScanIter(pattern) == {k \in Keys : Live(k) /\ Match(pattern, k)}

\* the number of keys DELETE removes
Deleted(ks) == Cardinality({k \in ks : Live(k)})

\* ------------------------------------------------- callers of ResponseCache
\* compute_fn as the cache sees it: whether awaiting it suspends the caller,
\* and what it returns (or Raise)
Fns == [suspends : BOOLEAN, out : Values \cup {Raise}]

NoRes == [kind |-> "none", v |-> NoneV]
Returned(v) == [kind |-> "value", v |-> v]
ComputeError == [kind |-> "exc", v |-> "ComputeError"]
IndexError == [kind |-> "exc", v |-> "IndexError"]
RedisError == [kind |-> "exc", v |-> "RedisError"]

Idle ==
    [pc |-> "idle", op |-> "none", key |-> "a", fn |-> [suspends |-> FALSE, out |-> NoneV],
     ttl_memory |-> 0, ttl_redis |-> 0, pattern |-> "", val |-> NoneV, scanned |-> {},
     res |-> NoRes, rlog |-> <<>>, path |-> "none", out |-> "none",
     overlap |-> {}, absent0 |-> FALSE, computed0 |-> {}]

InProgress(q) == calls[q].pc \notin {"idle", "done"}

\* the operation of caller q works on key k
Touches(q, k) ==
    \/ calls[q].op \in {"get_or_compute", "invalidate"} /\ calls[q].key = k
    \/ calls[q].op = "clear"

\* the callers whose operation in progress shares a key with a new operation
Others(p, op, k) ==
    {q \in Callers \ {p} : InProgress(q) /\
        IF op = "clear" THEN calls[q].op \in {"get_or_compute", "invalidate", "clear"}
        ELSE Touches(q, k)}

\* caller p enters an operation: its record, and the other callers' records
\* with the overlap noted
Enter(p, op, k, f, tm, tr, pat) ==
    [q \in Callers |->
        IF q = p
        THEN [Idle EXCEPT !.pc = "run", !.op = op, !.key = k, !.fn = f,
                          !.ttl_memory = tm, !.ttl_redis = tr, !.pattern = pat,
                          !.overlap = Others(p, op, k),
                          !.absent0 = (MemoryGet(Mem(_cache, _access_order), k, now).value = NoneV
                                       /\ ~Live(k)),
                          !.computed0 = IF op = "invalidate"
                                        THEN {x \in Others(p, op, k) : calls[x].out \in Values}
                                        ELSE {}]
        ELSE IF q \in Others(p, op, k)
        THEN [calls[q] EXCEPT !.overlap = @ \cup {p}]
        ELSE calls[q]]

\* the callers are interchangeable: they make their calls in the order of
\* their numbers
CanStart(p) == calls[p].pc = "idle" /\ \A q \in Procs : q < p => calls[q].pc # "idle"

Log(r, o) == [r EXCEPT !.rlog = Append(@, o)]

\* the operation of caller p returns or raises
Finish(p, C, r, M, st, result) ==
    /\ calls' = [C EXCEPT ![p] = [r EXCEPT !.pc = "done", !.res = result,
                                           !.fn = Idle.fn, !.ttl_memory = 0,
                                           !.ttl_redis = 0, !.pattern = "",
                                           !.val = NoneV, !.scanned = {}]]
    /\ _cache' = M.cache
    /\ _access_order' = M.order
    /\ _stats' = st

\* the operation of caller p suspends at an await
Suspend(p, C, r, M, st, at) ==
    /\ calls' = [C EXCEPT ![p] = [r EXCEPT !.pc = at]]
    /\ _cache' = M.cache
    /\ _access_order' = M.order
    /\ _stats' = st

\* ---------------------------------------------- ResponseCache.get_or_compute
\* lines 329-335: populate all cache layers, up to the await of setex
Populate(p, C, r, M, st, v) ==
    LET s == MemorySet(M, maxsize, r.key, v, r.ttl_memory, now)
        st2 == [st EXCEPT !.sets = @ + 1]
    IN  IF s.raised THEN Finish(p, C, r, s.mem, st, IndexError)
        ELSE IF ~RedisReady
        THEN Finish(p, C, Log(r, NotReady("set")), s.mem, st2, Returned(v))
        ELSE IF JsonDumps(v) = "TypeError"
        THEN IF RedisSetExcept(FALSE).raised
             THEN Finish(p, C, Log(r, RedisSetExcept(FALSE)), s.mem, st, RedisError)
             ELSE Finish(p, C, Log(r, RedisSetExcept(FALSE)), s.mem, st2, Returned(v))
        ELSE Suspend(p, C, [r EXCEPT !.val = v], s.mem, st, "redis_set")

\* lines 324-327 once compute_fn has returned or raised
Computed_swallow(p, C, r, M, st, out) ==
    Populate(p, C, [r EXCEPT !.out = out], M, st, IF out = Raise THEN NoneV ELSE out)

Computed(p, C, r, M, st, out) ==
    IF out = Raise THEN Finish(p, C, [r EXCEPT !.out = out], M, st, ComputeError)
    ELSE Populate(p, C, [r EXCEPT !.out = out], M, st, out)

Miss_uncounted(p, C, r, M, st) ==
    LET r2 == [r EXCEPT !.path = "computed"]
    IN  IF r.fn.suspends THEN Suspend(p, C, r2, M, st, "compute")
        ELSE Computed(p, C, r2, M, st, r.fn.out)

\* lines 319-327: count the miss and call compute_fn
Miss(p, C, r, M, st) ==
    LET st2 == [st EXCEPT !.misses = @ + 1]
        r2 == [r EXCEPT !.path = "computed"]
    IN  IF r.fn.suspends THEN Suspend(p, C, r2, M, st2, "compute")
        ELSE Computed(p, C, r2, M, st2, r.fn.out)

\* lines 311-317: the answer of the Redis tier
AfterRedisGet(p, C, r, M, st, o) ==
    IF o.raised THEN Finish(p, C, Log(r, o), M, st, RedisError)
    ELSE IF o.ret # NoneV
    THEN LET s == MemorySet(M, maxsize, r.key, o.ret, r.ttl_memory, now)
         IN  IF s.raised THEN Finish(p, C, Log(r, o), s.mem, st, IndexError)
             ELSE Finish(p, C, [Log(r, o) EXCEPT !.path = "redis"], s.mem,
                         [st EXCEPT !.hits_redis = @ + 1], Returned(o.ret))
    ELSE Miss(p, C, Log(r, o), M, st)

\* lines 302-310: the call, up to the await of the Redis GET
GetOrCompute(p, k, f, tm, tr) ==
    /\ CanStart(p)
    /\ LET C == Enter(p, "get_or_compute", k, f, tm, tr, "")
           g == MemoryGet(Mem(_cache, _access_order), k, now)
       IN  IF g.value # NoneV
           THEN Finish(p, C, [C[p] EXCEPT !.path = "memory"], g.mem,
                       [_stats EXCEPT !.hits_memory = @ + 1], Returned(g.value))
           ELSE IF ~RedisReady
           THEN AfterRedisGet(p, C, C[p], g.mem, _stats, NotReady("get"))
           ELSE Suspend(p, C, C[p], g.mem, _stats, "redis_get")
    /\ UNCHANGED <<now, REDIS_AVAILABLE, _redis, _connected, store_up, store, startup, dedupVars, unitVars>>

\* the Redis GET answers
GetOrComputeRedisGet(p) ==
    /\ calls[p].pc = "redis_get"
    /\ AfterRedisGet(p, calls, calls[p], Mem(_cache, _access_order), _stats,
                     RedisGetReply(calls[p].key))
    /\ UNCHANGED <<now, REDIS_AVAILABLE, _redis, _connected, store_up, store, startup, dedupVars, unitVars>>

\* "await compute_fn()" resumes
GetOrComputeComputed(p) ==
    /\ calls[p].pc = "compute"
    /\ Computed(p, calls, calls[p], Mem(_cache, _access_order), _stats, calls[p].fn.out)
    /\ UNCHANGED <<now, REDIS_AVAILABLE, _redis, _connected, store_up, store, startup, dedupVars, unitVars>>

\* the Redis SETEX answers: lines 214-220, then 332-335
GetOrComputeRedisSet(p) ==
    /\ calls[p].pc = "redis_set"
    /\ LET o == RedisSetReply
           r == Log(calls[p], o)
           M == Mem(_cache, _access_order)
       IN  /\ store' = IF o.failed THEN store
                       ELSE StoreSetex(r.key, TtlSeconds(r.ttl_redis), JsonDumps(r.val))
           /\ IF o.raised THEN Finish(p, calls, r, M, _stats, RedisError)
              ELSE Finish(p, calls, r, M, [_stats EXCEPT !.sets = @ + 1], Returned(r.val))
    /\ UNCHANGED <<now, REDIS_AVAILABLE, _redis, _connected, store_up, startup, dedupVars, unitVars>>

\* -------------------------------------------------- ResponseCache.invalidate
\* lines 339-340, up to the await of the Redis DELETE
Invalidate(p, k) ==
    /\ CanStart(p)
    /\ LET C == Enter(p, "invalidate", k, Idle.fn, 0, 0, "")
           M == MemoryInvalidate(Mem(_cache, _access_order), k)
       IN  IF ~RedisReady
           THEN Finish(p, C, Log(C[p], NotReady("invalidate")), M, _stats, Returned(NoneV))
           ELSE Suspend(p, C, C[p], M, _stats, "redis_delete")
    /\ UNCHANGED <<now, REDIS_AVAILABLE, _redis, _connected, store_up, store, startup, dedupVars, unitVars>>

\* the Redis DELETE answers: lines 228-233, then 341
InvalidateRedisDelete(p) ==
    /\ calls[p].pc = "redis_delete"
    /\ LET o == RedisInvalidateReply(calls[p].key)
           r == Log(calls[p], o)
       IN  /\ store' = IF o.failed THEN store ELSE MapDel(store, r.key)
           /\ Finish(p, calls, r, Mem(_cache, _access_order), _stats,
                     IF o.raised THEN RedisError ELSE Returned(NoneV))
    /\ UNCHANGED <<now, REDIS_AVAILABLE, _redis, _connected, store_up, startup, dedupVars, unitVars>>

\* ------------------------------------------------------- ResponseCache.clear
\* lines 345-348, up to the first await of scan_iter; pat = "" is "no pattern"
Clear(p, pat) ==
    /\ CanStart(p)
    /\ LET C == Enter(p, "clear", Idle.key, Idle.fn, 0, 0, pat)
           M == MemoryClear(Mem(_cache, _access_order))
       IN  IF pat = ""
           THEN Finish(p, C, C[p], M, _stats, Returned(NoneV))
           ELSE IF ~RedisReady
           THEN Finish(p, C, Log(C[p], NotReady("clear_pattern")), M, _stats, Returned(NoneV))
           ELSE Suspend(p, C, C[p], M, _stats, "redis_scan")
    /\ UNCHANGED <<now, REDIS_AVAILABLE, _redis, _connected, store_up, store, startup, dedupVars, unitVars>>

\* scan_iter has yielded its keys: lines 241-250
ClearScanned(p) ==
    /\ calls[p].pc = "redis_scan"
    /\ LET r == calls[p]
           M == Mem(_cache, _access_order)
           ks == ScanIter(r.pattern)
       IN  IF ~store_up
           THEN Finish(p, calls, Log(r, ClearPatternExcept), M, _stats,
                       IF ClearPatternExcept.raised THEN RedisError ELSE Returned(NoneV))
           ELSE IF ks = {}
           THEN Finish(p, calls, Log(r, Outcome("clear_pattern", TRUE, TRUE, FALSE, "0", FALSE)),
                       M, _stats, Returned(NoneV))
           ELSE Suspend(p, calls, [r EXCEPT !.scanned = ks], M, _stats, "redis_del_keys")
    /\ UNCHANGED <<now, REDIS_AVAILABLE, _redis, _connected, store_up, store, startup, dedupVars, unitVars>>

\* the bulk DELETE answers: lines 246-253
ClearDeleted(p) ==
    /\ calls[p].pc = "redis_del_keys"
    /\ LET r == calls[p]
           o == IF ~store_up THEN ClearPatternExcept
                ELSE Outcome("clear_pattern", TRUE, TRUE, FALSE,
                             ToString(Deleted(r.scanned)), FALSE)
       IN  /\ store' = IF o.failed THEN store
                       ELSE [k \in DOMAIN store \ r.scanned |-> store[k]]
           /\ Finish(p, calls, Log(r, o), Mem(_cache, _access_order), _stats,
                     IF o.raised THEN RedisError ELSE Returned(NoneV))
    /\ UNCHANGED <<now, REDIS_AVAILABLE, _redis, _connected, store_up, startup, dedupVars, unitVars>>

\* -------------------------------------------------------- ResponseCache.stats
\* lines 354-365: the counters stats reports (hit_rate is their quotient)
stats ==
    [memory_size |-> Cardinality(DOMAIN _cache),
     hits |-> [memory |-> _stats.hits_memory, redis |-> _stats.hits_redis],
     misses |-> _stats.misses,
     sets |-> _stats.sets,
     total_requests |-> _stats.hits_memory + _stats.hits_redis + _stats.misses]

\* ------------------------------------------------ main.py: the clear endpoint
\* n counts the requests answered
NoResponse == [n |-> 0, status |-> "none", message |-> "none"]

\* lines 1733-1743: clear_cache calls response_cache.clear() without await.
\* The call builds a coroutine object that is never scheduled, so no line of
\* ResponseCache.clear runs and nothing is raised; the handler returns
ClearCacheEndpoint ==
    /\ http.n < MaxClears
    /\ http' = [n |-> http.n + 1, status |-> "ok", message |-> "Cache cleared successfully"]
    /\ UNCHANGED <<cacheVars, dedupVars, memcall, keygen>>

\* ------------------------------------------------------- RedisCache.connect
\* startup_event calls ResponseCache.initialize once: lines 162-171, up to the
\* await of ping
Connect ==
    /\ startup.pc = "init"
    /\ IF ~REDIS_AVAILABLE
       THEN /\ startup' = [pc |-> "done", rlog |-> <<NotReady("connect")>>, raised |-> FALSE]
            /\ _redis' = _redis
       ELSE /\ startup' = [startup EXCEPT !.pc = "connect_ping"]
            /\ _redis' = TRUE
    /\ UNCHANGED <<now, _cache, _access_order, REDIS_AVAILABLE, _connected, store_up,
                   store, _stats, calls, dedupVars, unitVars>>

\* ping answers: lines 174-181
ConnectPing ==
    /\ startup.pc = "connect_ping"
    /\ LET o == IF store_up THEN Outcome("connect", TRUE, TRUE, FALSE, "True", FALSE)
                ELSE ConnectExcept
       IN  /\ _connected' = ~o.failed
           /\ startup' = [pc |-> "done", rlog |-> <<o>>, raised |-> o.raised]
    /\ UNCHANGED <<now, _cache, _access_order, REDIS_AVAILABLE, _redis, store_up,
                   store, _stats, calls, dedupVars, unitVars>>

\* ------------------------------------------------------------ environment
\* one second passes
Tick ==
    /\ now < MaxTime
    /\ now' = now + 1
    /\ UNCHANGED <<_cache, _access_order, REDIS_AVAILABLE, _redis, _connected,
                   store_up, store, _stats, startup, calls, dedupVars, unitVars>>

\* the Redis server becomes unreachable
StoreFails ==
    /\ store_up
    /\ store_up' = FALSE
    /\ UNCHANGED <<now, _cache, _access_order, REDIS_AVAILABLE, _redis, _connected,
                   store, _stats, startup, calls, dedupVars, unitVars>>

\* the Redis server becomes reachable again
StoreRecovers ==
    /\ ~store_up
    /\ store_up' = TRUE
    /\ UNCHANGED <<now, _cache, _access_order, REDIS_AVAILABLE, _redis, _connected,
                   store, _stats, startup, calls, dedupVars, unitVars>>

\* ------------------------------------------------------ RequestDeduplicator
\* the timeout argument of deduplicate: None, a positive number, zero or less
Timeouts == {"none", "pos", "zero"}

\* the result of a task or of a call: a value or an exception, and the caller
\* whose async_fn produced it (0: none did)
NoResult == [kind |-> "none", by |-> 0]
Cancelled == [kind |-> "CancelledError", by |-> 0]
TimedOut == [kind |-> "TimeoutError", by |-> 0]

DIdle == [pc |-> "idle", key |-> "a", timeout |-> "none", role |-> "none", task |-> 0,
          timed_out |-> FALSE, res |-> NoResult]

DCanStart(p) == dcalls[p].pc = "idle" /\ \A q \in DProcs : q < p => dcalls[q].pc # "idle"

\* lines 82-85: the waiter's finally block
Decrement(counts, k) ==
    IF k \notin DOMAIN counts THEN counts
    ELSE IF counts[k] - 1 <= 0 THEN MapDel(counts, k)
    ELSE [counts EXCEPT ![k] = @ - 1]

\* lines 125-129: the finally block of _execute_with_cleanup
Cleanup(m, k) == IF k \in DOMAIN m THEN MapDel(m, k) ELSE m

Publish_late(k, t) == _pending_requests

\* line 92: the task enters the registry in the step that creates it
Publish(k, t) == MapSet(_pending_requests, k, t)

Delivered_own(p, t) == [kind |-> tasks[t].result.kind, by |-> p]

\* what awaiting task t gives caller p: the task's result or its exception
Delivered(p, t) == tasks[t].result

\* lines 52-66 and 87-96: deduplicate, up to its first await
Deduplicate(p, k, timeout) ==
    /\ DCanStart(p)
    /\ IF k \in DOMAIN _pending_requests
       THEN LET t == _pending_requests[k]
                counts == MapSet(_request_counts, k,
                                 (IF k \in DOMAIN _request_counts
                                  THEN _request_counts[k] ELSE 0) + 1)
                r == [DIdle EXCEPT !.key = k, !.timeout = timeout, !.role = "waiter",
                                   !.task = t]
            IN  /\ _pending_requests' = _pending_requests
                /\ IF timeout = "zero" /\ tasks[t].state = "done"
                   THEN \* wait_for returns fut.result() at once; then the finally block
                        /\ dcalls' = [dcalls EXCEPT ![p] =
                                        [r EXCEPT !.pc = "done", !.res = Delivered(p, t)]]
                        /\ _request_counts' = Decrement(counts, k)
                        /\ tasks' = tasks
                   ELSE IF timeout = "zero"
                   THEN \* wait_for cancels the task and waits for it to end
                        /\ dcalls' = [dcalls EXCEPT ![p] =
                                        [r EXCEPT !.pc = "cancel_wait", !.timed_out = TRUE]]
                        /\ _request_counts' = counts
                        /\ tasks' = [tasks EXCEPT ![t].must_cancel = TRUE]
                   ELSE /\ dcalls' = [dcalls EXCEPT ![p] = [r EXCEPT !.pc = "wait_for"]]
                        /\ _request_counts' = counts
                        /\ tasks' = tasks
       ELSE /\ Len(tasks) < MaxTasks
            /\ tasks' = Append(tasks, [key |-> k, fn |-> p, state |-> "created",
                                       started |-> FALSE, must_cancel |-> FALSE,
                                       result |-> NoResult])
            /\ _pending_requests' = Publish(k, Len(tasks) + 1)
            /\ _request_counts' = MapSet(_request_counts, k, 0)
            /\ dcalls' = [dcalls EXCEPT ![p] =
                            [DIdle EXCEPT !.pc = "await_task", !.key = k, !.timeout = timeout,
                                          !.role = "starter", !.task = Len(tasks) + 1]]
    /\ UNCHANGED <<cacheVars, unitVars>>

\* the first step of the task: _execute_with_cleanup runs up to the await
\* inside async_fn.  A task cancelled before this step never enters the
\* coroutine, so its try/finally does not run
TaskStart(t) ==
    /\ tasks[t].state = "created"
    /\ tasks' = IF tasks[t].must_cancel
                THEN [tasks EXCEPT ![t].state = "done", ![t].result = Cancelled]
                ELSE [tasks EXCEPT ![t].state = "running", ![t].started = TRUE]
    /\ UNCHANGED <<_pending_requests, _request_counts, dcalls, cacheVars, unitVars>>

\* async_fn returns or raises: lines 113-129
TaskFinish(t, kind) ==
    /\ tasks[t].state = "running"
    /\ ~tasks[t].must_cancel
    /\ tasks' = [tasks EXCEPT ![t].state = "done",
                              ![t].result = [kind |-> kind, by |-> tasks[t].fn]]
    /\ _pending_requests' = Cleanup(_pending_requests, tasks[t].key)
    /\ _request_counts' = Cleanup(_request_counts, tasks[t].key)
    /\ UNCHANGED <<dcalls, cacheVars, unitVars>>

\* CancelledError is thrown into the running task at its await: lines 123-129
TaskCancelled(t) ==
    /\ tasks[t].state = "running"
    /\ tasks[t].must_cancel
    /\ tasks' = [tasks EXCEPT ![t].state = "done", ![t].result = Cancelled]
    /\ _pending_requests' = Cleanup(_pending_requests, tasks[t].key)
    /\ _request_counts' = Cleanup(_request_counts, tasks[t].key)
    /\ UNCHANGED <<dcalls, cacheVars, unitVars>>

\* the timeout of a waiter elapses: asyncio.wait_for cancels the future it
\* was given (line 63 passes the shared task itself) and waits for it to end
WaiterTimeout(p) ==
    /\ dcalls[p].pc = "wait_for"
    /\ dcalls[p].timeout = "pos"
    /\ tasks[dcalls[p].task].state = "running"
    /\ tasks' = [tasks EXCEPT ![dcalls[p].task].must_cancel = TRUE]
    /\ dcalls' = [dcalls EXCEPT ![p].pc = "cancel_wait", ![p].timed_out = TRUE]
    /\ UNCHANGED <<_pending_requests, _request_counts, cacheVars, unitVars>>

\* the waiter resumes once the task is done: lines 66-85
WaiterResume(p) ==
    /\ dcalls[p].pc \in {"wait_for", "cancel_wait"}
    /\ tasks[dcalls[p].task].state = "done"
    /\ dcalls' = [dcalls EXCEPT ![p].pc = "done",
                    ![p].res = IF dcalls[p].pc = "cancel_wait"
                                  /\ tasks[dcalls[p].task].result = Cancelled
                               THEN TimedOut
                               ELSE Delivered(p, dcalls[p].task)]
    /\ _request_counts' = Decrement(_request_counts, dcalls[p].key)
    /\ UNCHANGED <<_pending_requests, tasks, cacheVars, unitVars>>

\* the caller that created the task resumes: lines 96-101
StarterResume(p) ==
    /\ dcalls[p].pc = "await_task"
    /\ tasks[dcalls[p].task].state = "done"
    /\ dcalls' = [dcalls EXCEPT ![p].pc = "done", ![p].res = Delivered(p, dcalls[p].task)]
    /\ UNCHANGED <<_pending_requests, _request_counts, tasks, cacheVars, unitVars>>

\* lines 131-137: the numbers get_stats reports
get_stats ==
    LET RECURSIVE Sum(_)
        Sum(ks) == IF ks = {} THEN 0
                   ELSE LET k == CHOOSE x \in ks : TRUE
                        IN  _request_counts[k] + Sum(ks \ {k})
    IN  [pending_requests |-> Cardinality(DOMAIN _pending_requests),
         total_waiting |-> Sum(DOMAIN _request_counts)]

\* ------------------------------------------------- MemoryCache on its own
\* the keys and values a direct user of one MemoryCache(maxsize=MemMaxsize)
\* passes
KeyNames == <<"A", "B", "C", "D", "E">>
MemKeys == {KeyNames[i] : i \in 1..(MemMaxsize + 1)}
MemValues == {NoneV, "v1"}
MemTtls == {0, 1}

\* the last call: n counts the calls made, before is the tier when the call
\* began, used[k] is the number of the latest set or get-hit of k (0: none)
MemIdle ==
    [n |-> 0, op |-> "none", key |-> "A", value |-> NoneV, ttl |-> 0, ret |-> NoneV,
     raised |-> FALSE, before |-> Mem(EmptyMap, <<>>), used |-> [k \in MemKeys |-> 0]]

MemCall(op, k, v, ttl, ret, raised, hit) ==
    [n |-> memcall.n + 1, op |-> op, key |-> k, value |-> v, ttl |-> ttl, ret |-> ret,
     raised |-> raised, before |-> Mem(_cache, _access_order),
     used |-> IF hit THEN [memcall.used EXCEPT ![k] = memcall.n + 1] ELSE memcall.used]

\* k is stored in cache c and has not outlived its ttl at time t
Fresh(c, k, t) == k \in DOMAIN c /\ t - c[k].timestamp <= c[k].ttl

MemSet(k, v, ttl) ==
    /\ memcall.n < MaxMemOps
    /\ LET s == MemorySet(Mem(_cache, _access_order), MemMaxsize, k, v, ttl, now)
       IN  /\ _cache' = s.mem.cache
           /\ _access_order' = s.mem.order
           /\ memcall' = MemCall("set", k, v, ttl, NoneV, s.raised, TRUE)
    /\ UNCHANGED <<now, REDIS_AVAILABLE, _redis, _connected, store_up, store, _stats,
                   startup, calls, dedupVars, keygen, http>>

MemGet(k) ==
    /\ memcall.n < MaxMemOps
    /\ LET g == MemoryGet(Mem(_cache, _access_order), k, now)
       IN  /\ _cache' = g.mem.cache
           /\ _access_order' = g.mem.order
           /\ memcall' = MemCall("get", k, NoneV, 0, g.value, FALSE, Fresh(_cache, k, now))
    /\ UNCHANGED <<now, REDIS_AVAILABLE, _redis, _connected, store_up, store, _stats,
                   startup, calls, dedupVars, keygen, http>>

MemInvalidate(k) ==
    /\ memcall.n < MaxMemOps
    /\ LET M == MemoryInvalidate(Mem(_cache, _access_order), k)
       IN  /\ _cache' = M.cache
           /\ _access_order' = M.order
           /\ memcall' = MemCall("invalidate", k, NoneV, 0, NoneV, FALSE, FALSE)
    /\ UNCHANGED <<now, REDIS_AVAILABLE, _redis, _connected, store_up, store, _stats,
                   startup, calls, dedupVars, keygen, http>>

MemClear ==
    /\ memcall.n < MaxMemOps
    /\ LET M == MemoryClear(Mem(_cache, _access_order))
       IN  /\ _cache' = M.cache
           /\ _access_order' = M.order
           /\ memcall' = MemCall("clear", MemIdle.key, NoneV, 0, NoneV, FALSE, FALSE)
    /\ UNCHANGED <<now, REDIS_AVAILABLE, _redis, _connected, store_up, store, _stats,
                   startup, calls, dedupVars, keygen, http>>

\* ----------------------------------------------------------------- CacheKey
\* a str is the sequence of its characters
Ord(c) ==
    CASE c = " " -> 32
      [] c = "1" -> 49
      [] c = ":" -> 58
      [] c = "=" -> 61
      [] c = "A" -> 65
      [] c = "B" -> 66
      [] c = "_" -> 95
      [] c = "a" -> 97
      [] c = "b" -> 98

\* s < t on str
RECURSIVE StrLess(_, _)
StrLess(s, t) ==
    IF t = <<>> THEN FALSE
    ELSE IF s = <<>> THEN TRUE
    ELSE IF Head(s) # Head(t) THEN Ord(Head(s)) < Ord(Head(t))
    ELSE StrLess(Tail(s), Tail(t))

\* str.lower()
Lower(s) ==
    [i \in 1..Len(s) |-> CASE s[i] = "A" -> "a" [] s[i] = "B" -> "b" [] OTHER -> s[i]]

\* str.strip()
RECURSIVE Strip(_)
Strip(s) ==
    IF s = <<>> THEN s
    ELSE IF Head(s) = " " THEN Strip(Tail(s))
    ELSE IF s[Len(s)] = " " THEN Strip(SubSeq(s, 1, Len(s) - 1))
    ELSE s

\* str.replace(" ", "_")
ReplaceSpaces(s) == [i \in 1..Len(s) |-> IF s[i] = " " THEN "_" ELSE s[i]]

normalize(key) == ReplaceSpaces(Strip(Lower(key)))

\* the arguments a call site passes: a str, an int and a list
StrArg == [type |-> "str", v |-> <<"B", " ", "b">>]
IntArg == [type |-> "int", v |-> <<"1">>]
ListArg == [type |-> "list", v |-> <<"[", "1", ",", " ", "2", "]">>]
ArgValues == {StrArg, IntArg, ListArg}
\* the str "a=1", passed positionally
EqArg == [type |-> "str", v |-> <<"a", "=", "1">>]

\* sha256(json.dumps(data, sort_keys=True)).hexdigest()[:16] of the list [1, 2]
hash_data(data) ==
    <<"3", "a", "3", "1", "6", "d", "6", "d", "3", "2", "2", "6", "f", "8", "4", "c">>

\* str(arg) for a str or a number, the hash of anything else
ArgPart(arg) == IF arg.type \in {"str", "int", "float"} THEN arg.v ELSE hash_data(arg.v)

\* f"{k}={v}"
KwPart(item) == item[1] \o <<"=">> \o ArgPart(item[2])

\* the place of item x in the sorted list s
RECURSIVE Insert(_, _)
Insert(s, x) ==
    IF s = <<>> THEN <<x>>
    ELSE IF StrLess(x[1], Head(s)[1]) THEN <<x>> \o s
    ELSE <<Head(s)>> \o Insert(Tail(s), x)

RECURSIVE InsertAll(_, _)
InsertAll(s, items) ==
    IF items = <<>> THEN s ELSE InsertAll(Insert(s, Head(items)), Tail(items))

Sorted_asGiven(items) == items

\* sorted(kwargs.items()): the names of a dict are distinct
Sorted(items) == InsertAll(<<>>, items)

\* ":".join(parts)
RECURSIVE Join(_)
Join(parts) ==
    IF parts = <<>> THEN <<>>
    ELSE IF Len(parts) = 1 THEN Head(parts)
    ELSE Head(parts) \o <<":">> \o Join(Tail(parts))

\* the list parts of generate, before it is normalized and joined
Parts(prefix, args, kwargs) ==
    <<prefix>> \o [i \in 1..Len(args) |-> ArgPart(args[i])]
               \o [i \in 1..Len(kwargs) |-> KwPart(Sorted(kwargs)[i])]

generate(prefix, args, kwargs) ==
    LET parts == Parts(prefix, args, kwargs)
    IN  Join([i \in 1..Len(parts) |-> normalize(parts[i])])

\* what the call sites pass; kwargs is the dict in the order the call site
\* wrote it
Prefixes == {<<"A">>, <<"a", " ">>}
PosArgs == {<<>>, <<StrArg>>, <<IntArg, ListArg>>, <<EqArg>>}
Names == {<<"a">>, <<"B">>, <<"a", "b">>}
Items == Names \X ArgValues
Kwargs ==
    UNION {{s \in [1..n -> Items] : \A i, j \in 1..n : i # j => s[i][1] # s[j][1]}
           : n \in 0..MaxKwargs}

KeygenIdle == [called |-> FALSE, prefix |-> <<>>, args |-> <<>>, kwargs |-> <<>>, key |-> <<>>]

Generate(prefix, args, kwargs) ==
    /\ ~keygen.called
    /\ keygen' = [called |-> TRUE, prefix |-> prefix, args |-> args, kwargs |-> kwargs,
                  key |-> generate(prefix, args, kwargs)]
    /\ UNCHANGED <<cacheVars, dedupVars, memcall, http>>

\* ----------------------------------------------------------- specification
\* a key another client of the shared server has written, not as JSON
ForeignStore == [k \in {"b"} |-> [data |-> "\\xff", expire_at |-> default_ttl]]

CacheInit ==
    /\ now = 0
    /\ _cache = EmptyMap
    /\ _access_order = <<>>
    /\ REDIS_AVAILABLE \in BOOLEAN
    /\ _redis = FALSE
    /\ _connected = FALSE
    /\ store_up = TRUE
    /\ store \in {EmptyMap, ForeignStore}
    /\ _stats = [hits_memory |-> 0, hits_redis |-> 0, misses |-> 0, sets |-> 0]
    /\ startup = [pc |-> "init", rlog |-> <<>>, raised |-> FALSE]
    /\ calls = [p \in Callers |-> Idle]

DedupInit ==
    /\ _pending_requests = EmptyMap
    /\ _request_counts = EmptyMap
    /\ tasks = <<>>
    /\ dcalls = [p \in DProcs |-> DIdle]

UnitInit ==
    /\ memcall = MemIdle
    /\ keygen = KeygenIdle
    /\ http = NoResponse

Init == CacheInit /\ DedupInit /\ UnitInit

Next ==
    \/ \E p \in Procs, k \in Keys, f \in Fns, t \in Ttls :
          GetOrCompute(p, k, f, t[1], t[2])
    \/ \E p \in Procs : GetOrComputeRedisGet(p)
    \/ \E p \in Procs : GetOrComputeComputed(p)
    \/ \E p \in Procs : GetOrComputeRedisSet(p)
    \/ \E p \in Procs, k \in Keys : Invalidate(p, k)
    \/ \E p \in Procs : InvalidateRedisDelete(p)
    \/ \E p \in Procs, pat \in Patterns : Clear(p, pat)
    \/ \E p \in Procs : ClearScanned(p)
    \/ \E p \in Procs : ClearDeleted(p)
    \/ Connect
    \/ ConnectPing
    \/ Tick
    \/ StoreFails
    \/ StoreRecovers

Spec == Init /\ [][Next]_vars

DedupNext ==
    \/ \E p \in DProcs, k \in Keys, timeout \in Timeouts : Deduplicate(p, k, timeout)
    \/ \E t \in 1..Len(tasks) : TaskStart(t)
    \/ \E t \in 1..Len(tasks), kind \in {"value", "exc"} : TaskFinish(t, kind)
    \/ \E t \in 1..Len(tasks) : TaskCancelled(t)
    \/ \E p \in DProcs : WaiterTimeout(p)
    \/ \E p \in DProcs : WaiterResume(p)
    \/ \E p \in DProcs : StarterResume(p)

\* the deduplicator does not use the cache: its runs start from one cache state
DedupStart == Init /\ REDIS_AVAILABLE = TRUE /\ store = EmptyMap

DedupSpec == DedupStart /\ [][DedupNext]_vars

\* the event loop runs every task and every caller that is ready to run, and
\* every async_fn that runs returns or raises; a timeout need not elapse
DedupFairSpec ==
    /\ DedupSpec
    /\ \A t \in 1..MaxTasks :
          /\ WF_vars(t <= Len(tasks) /\ TaskStart(t))
          /\ WF_vars(t <= Len(tasks) /\ \E kind \in {"value", "exc"} : TaskFinish(t, kind))
          /\ WF_vars(t <= Len(tasks) /\ TaskCancelled(t))
    /\ \A p \in DProcs : WF_vars(WaiterResume(p)) /\ WF_vars(StarterResume(p))

MemNext ==
    \/ \E k \in MemKeys, v \in MemValues, ttl \in MemTtls : MemSet(k, v, ttl)
    \/ \E k \in MemKeys : MemGet(k)
    \/ \E k \in MemKeys : MemInvalidate(k)
    \/ MemClear
    \/ Tick

\* a MemoryCache used on its own does not use the Redis tier
MemSpec == DedupStart /\ [][MemNext]_vars

KeyNext == \E prefix \in Prefixes, args \in PosArgs, kwargs \in Kwargs :
              Generate(prefix, args, kwargs)

KeySpec == DedupStart /\ [][KeyNext]_vars

\* the invalidation race: three callers, each fn returns at once or after an
\* await, the Redis server stays up
RaceFns == [suspends : BOOLEAN, out : {"v1", "tup"}]

RaceNext ==
    \/ \E p \in Callers, k \in Keys, f \in RaceFns : GetOrCompute(p, k, f, 1, 1)
    \/ \E p \in Callers : GetOrComputeRedisGet(p)
    \/ \E p \in Callers : GetOrComputeComputed(p)
    \/ \E p \in Callers : GetOrComputeRedisSet(p)
    \/ \E p \in Callers, k \in Keys : Invalidate(p, k)
    \/ \E p \in Callers : InvalidateRedisDelete(p)
    \/ Connect
    \/ ConnectPing

RaceSpec == DedupStart /\ [][RaceNext]_vars

\* main.py with the Redis library not installed: the memory tier alone
MainStart == Init /\ REDIS_AVAILABLE = FALSE /\ store = EmptyMap

MainNext ==
    \/ Connect
    \/ \E p \in Procs, k \in Keys, f \in Fns, t \in Ttls :
          GetOrCompute(p, k, f, t[1], t[2])
    \/ \E p \in Procs : GetOrComputeComputed(p)
    \/ ClearCacheEndpoint
    \/ Tick

MainSpec == MainStart /\ [][MainNext]_vars

\* ================================================= claims: ResponseCache
\* caller p returns from (or raises out of) its call in this step
Returns(p) == calls[p].pc # "done" /\ calls'[p].pc = "done"

\* every Redis operation of the call found the tier not connected or failing
TierUnavailable(r) == \A i \in 1..Len(r.rlog) : ~r.rlog[i].ready \/ r.rlog[i].failed

\* C1: N concurrent get_or_compute(k) calls on a key absent from both tiers
\* invoke compute_fn exactly once and all return the same value.  Stated for
\* every pair of finished calls that were in progress at the same time.
C1_SingleFlight ==
    \A p, q \in Procs :
        ( /\ p < q
          /\ calls[p].pc = "done" /\ calls[q].pc = "done"
          /\ calls[p].op = "get_or_compute" /\ calls[q].op = "get_or_compute"
          /\ calls[p].key = calls[q].key
          /\ q \in calls[p].overlap /\ p \in calls[q].overlap
          /\ calls[p].absent0 /\ calls[q].absent0 )
        => /\ Cardinality({x \in {p, q} : calls[x].path = "computed"}) = 1
           /\ calls[p].res = calls[q].res

\* C7: when compute_fn raises, the same exception reaches the caller, neither
\* tier is written for k and the sets counter does not move.
C7_ComputeFailure ==
    [][\A p \in Procs :
          (Returns(p) /\ calls'[p].out = Raise)
          => /\ calls'[p].res = ComputeError
             /\ calls'[p].key \in DOMAIN _cache'
                  => /\ calls'[p].key \in DOMAIN _cache
                     /\ _cache'[calls'[p].key] = _cache[calls'[p].key]
             /\ store' = store
             /\ _stats'.sets = _stats.sets
             /\ _stats'.misses >= 1]_vars

C7_Witness ==
    \E p \in Procs : calls[p].pc = "done" /\ calls[p].out = Raise
                     /\ calls[p].res = ComputeError /\ _stats.misses > _stats.sets

\* C8: with the Redis tier unavailable, get_or_compute(k, fn) returns fn's
\* result, stores it in the memory tier so that the next call is a memory
\* hit, and no Redis exception reaches the caller.  Stated for a call no
\* other call interferes with, and for a next call made within ttl_memory.
C8_TierFallback ==
    [][\A p \in Procs :
          ( /\ Returns(p)
            /\ calls'[p].out \in Values
            /\ TierUnavailable(calls'[p])
            /\ \A q \in Procs \ {p} : calls[q].pc = "idle" )
          => LET k == calls'[p].key
             IN  /\ calls'[p].res = Returned(calls'[p].out)
                 /\ k \in DOMAIN _cache'
                 /\ _cache'[k].value = calls'[p].out
                 /\ now' - _cache'[k].timestamp <= _cache'[k].ttl
                      => MemoryGet(Mem(_cache', _access_order'), k, now').value # NoneV]_vars

\* C9: the RedisCache methods never raise; when the tier is not connected or
\* the command or the (de)serialization fails they return their sentinel;
\* no command is in flight to a tier that is not connected.
C9_RedisNeverRaises ==
    /\ \A p \in Procs : calls[p].res # RedisError
    /\ ~startup.raised
    /\ \A p \in Procs : \A i \in 1..Len(calls[p].rlog) :
          LET o == calls[p].rlog[i]
          IN  /\ ~o.raised
              /\ (~o.ready \/ o.failed) => o.ret = Sentinel(o.op)
              /\ ~o.ready => ~o.contacted
    /\ \A i \in 1..Len(startup.rlog) :
          startup.rlog[i].failed \/ ~startup.rlog[i].ready => startup.rlog[i].ret = "False"
    /\ \A p \in Procs :
          calls[p].pc \in {"redis_get", "redis_set", "redis_delete", "redis_scan",
                           "redis_del_keys"} => _connected /\ _redis

C9_Witness ==
    /\ \E p \in Procs : \E i \in 1..Len(calls[p].rlog) :
          calls[p].rlog[i].failed /\ calls[p].rlog[i].contacted
    /\ \E p \in Procs : \E i \in 1..Len(calls[p].rlog) : ~calls[p].rlog[i].ready

\* C10: with no other operation on k in progress, when invalidate(k) returns
\* k is in neither the memory tier nor the (available) Redis tier, whether or
\* not it was there before, and the call does not fail.
C10_Invalidate ==
    [][\A p \in Procs :
          ( /\ Returns(p)
            /\ calls'[p].op = "invalidate"
            /\ calls'[p].overlap = {} )
          => /\ calls'[p].res = Returned(NoneV)
             /\ calls'[p].key \notin DOMAIN _cache'
             /\ ~InList(_access_order', calls'[p].key)
             /\ (calls'[p].rlog[1].ready /\ ~calls'[p].rlog[1].failed)
                   => calls'[p].key \notin DOMAIN store']_vars

C10_Witness ==
    \E p \in Procs :
        /\ calls[p].pc = "done" /\ calls[p].op = "invalidate" /\ calls[p].overlap = {}
        /\ calls[p].rlog[1].ret = "True"
        /\ calls[p].key \notin DOMAIN _cache /\ calls[p].key \notin DOMAIN store
        /\ _stats.sets >= 1

\* =========================================== claims: RequestDeduplicator
\* the callers that started or joined task t
CallersOf(t) == {p \in DProcs : dcalls[p].pc # "idle" /\ dcalls[p].task = t}

\* C2: at most one execution of async_fn is active per key; a caller that
\* finds the key in the registry waits and never invokes its own async_fn;
\* a task is in the registry from the step that creates it, before its
\* async_fn begins to run.
C2_OneExecutionPerKey ==
    /\ \A k \in Keys :
          Cardinality({t \in 1..Len(tasks) :
                          tasks[t].key = k /\ tasks[t].state \in {"created", "running"}}) <= 1
    /\ \A p \in DProcs :
          dcalls[p].role = "waiter" => \A t \in 1..Len(tasks) : tasks[t].fn # p
    /\ \A t \in 1..Len(tasks) :
          tasks[t].state \in {"created", "running"}
          => /\ tasks[t].key \in DOMAIN _pending_requests
             /\ _pending_requests[tasks[t].key] = t

C2_Witness ==
    \E p, q \in DProcs :
        /\ dcalls[p].role = "starter" /\ dcalls[q].role = "waiter"
        /\ dcalls[q].pc = "wait_for"
        /\ dcalls[p].task = dcalls[q].task
        /\ tasks[dcalls[q].task].state = "running"

\* C3: provided none of them times out, the caller that started a
\* computation and every caller that joined it receive the same outcome: the
\* value async_fn returned or the exception it raised.
C3_SameOutcome ==
    \A t \in 1..Len(tasks) :
        (\A q \in CallersOf(t) : ~dcalls[q].timed_out)
        => \A p \in CallersOf(t) :
              dcalls[p].pc = "done"
              => /\ tasks[t].state = "done"
                 /\ dcalls[p].res.kind \in {"value", "exc"}
                 /\ dcalls[p].res = [kind |-> tasks[t].result.kind, by |-> tasks[t].fn]

C3_Witness ==
    \E p, q \in DProcs :
        /\ p # q /\ dcalls[p].task = dcalls[q].task
        /\ dcalls[p].pc = "done" /\ dcalls[q].pc = "done"
        /\ dcalls[p].role = "starter" /\ dcalls[q].role = "waiter"
        /\ dcalls[q].res = [kind |-> "exc", by |-> p]
        /\ \A x \in CallersOf(dcalls[p].task) : ~dcalls[x].timed_out

\* C4: when a waiter reaches its own timeout only that waiter's wait ends:
\* the shared computation is not cancelled and runs until async_fn completes.
C4_TimeoutKeepsComputation ==
    \A t \in 1..Len(tasks) : ~tasks[t].must_cancel /\ tasks[t].result # Cancelled

\* C5: a timeout error is raised only to the waiter whose timeout elapsed;
\* every other caller receives async_fn's value or exception, never a
\* timeout or cancellation error.
C5_TimeoutOnlyToItsWaiter ==
    \A p \in DProcs :
        dcalls[p].pc = "done"
        => /\ dcalls[p].res = TimedOut => dcalls[p].timed_out
           /\ ~dcalls[p].timed_out => dcalls[p].res.kind \in {"value", "exc"}

\* C6: once a computation for k has resolved, whatever the outcome, k is no
\* longer in the pending registry, so the next call computes afresh.
C6_RegistryCleared ==
    \A k \in DOMAIN _pending_requests : tasks[_pending_requests[k]].state # "done"

\* ============================== claims: ResponseCache, the three lookups
\* caller p makes its call in this step
Enters(p) == calls[p].pc = "idle" /\ calls'[p].pc # "idle"

\* C11: if the memory tier holds an unexpired entry for k, get_or_compute(k,
\* fn) returns that value at once, adds 1 to the memory-hit counter and to no
\* other counter, sends nothing to the Redis tier and does not invoke fn.
C11_MemoryHit ==
    [][\A p \in Procs :
          ( /\ Enters(p)
            /\ calls'[p].op = "get_or_compute"
            /\ Fresh(_cache, calls'[p].key, now) )
          => /\ calls'[p].pc = "done"
             /\ calls'[p].res = Returned(_cache[calls'[p].key].value)
             /\ _stats' = [_stats EXCEPT !.hits_memory = @ + 1]
             /\ calls'[p].rlog = <<>>
             /\ calls'[p].out = "none"
             /\ store' = store]_vars

\* C12: if the memory tier misses and the reachable Redis tier holds a value
\* the cache wrote for k, get_or_compute returns that value, adds 1 to the
\* redis-hit counter and to no other counter, stores the value in the memory
\* tier with TTL ttl_memory and does not invoke fn.
C12_RedisHit ==
    [][\A p \in Procs :
          ( /\ calls[p].pc = "redis_get"
            /\ calls'[p].pc # "redis_get"
            /\ store_up
            /\ Live(calls[p].key)
            /\ JsonLoads(store[calls[p].key].data) # "JSONDecodeError" )
          => LET k == calls[p].key
                 v == JsonLoads(store[k].data)
             IN  /\ calls'[p].pc = "done"
                 /\ calls'[p].res = Returned(v)
                 /\ _stats' = [_stats EXCEPT !.hits_redis = @ + 1]
                 /\ calls'[p].out = "none"
                 /\ k \in DOMAIN _cache'
                 /\ _cache'[k] = [value |-> v, timestamp |-> now,
                                  ttl |-> calls[p].ttl_memory]]_vars

\* C13: if both tiers miss and fn succeeds, the step that counts the miss adds
\* exactly 1 to misses, and when the call returns after its write to a
\* reachable Redis tier, with no other call in between, the memory tier holds
\* (k, value) with TTL ttl_memory, the Redis tier holds (k, value) with TTL
\* exactly ttl_redis, whatever ttl_redis >= 0 is, and sets has grown by 1.
C13_WriteThrough ==
    [][\A p \in Procs :
          /\ (calls[p].path # "computed" /\ calls'[p].path = "computed")
                => _stats'.misses = _stats.misses + 1
          /\ ( /\ calls[p].pc = "redis_set"
               /\ Returns(p)
               /\ store_up
               /\ \A q \in Procs \ {p} : calls[q].pc = "idle" )
             => LET k == calls[p].key
                IN  /\ calls'[p].res = Returned(calls[p].val)
                    /\ k \in DOMAIN _cache'
                    /\ _cache'[k].value = calls[p].val
                    /\ _cache'[k].ttl = calls[p].ttl_memory
                    /\ k \in DOMAIN store'
                    /\ store'[k] = [data |-> JsonDumps(calls[p].val),
                                    expire_at |-> now + calls[p].ttl_redis]
                    /\ _stats' = [_stats EXCEPT !.sets = @ + 1]]_vars

\* C14: after a get_or_compute(k) that computed a value has returned, and
\* while the memory tier still holds that value within its TTL, the next
\* get_or_compute(k) is a memory hit that returns the same value without
\* invoking fn, whatever the value is, None included.
C14_SecondCallHits ==
    [][\A p, q \in Procs :
          ( /\ Enters(p)
            /\ calls'[p].op = "get_or_compute"
            /\ calls[q].pc = "done"
            /\ calls[q].op = "get_or_compute"
            /\ calls[q].key = calls'[p].key
            /\ calls[q].path = "computed"
            /\ calls[q].res.kind = "value"
            /\ Fresh(_cache, calls[q].key, now)
            /\ _cache[calls[q].key].value = calls[q].res.v )
          => /\ calls'[p].pc = "done"
             /\ calls'[p].path = "memory"
             /\ calls'[p].res = calls[q].res
             /\ calls'[p].out = "none"
             /\ _stats'.misses = _stats.misses]_vars

\* C18: clear() with no pattern empties the memory tier and leaves the Redis
\* tier as it is; clear(pattern) empties the memory tier and, when the Redis
\* tier answers, removes from it exactly the keys that match pattern.  Stated
\* for a clear no other operation overlaps.
C18_Clear ==
    [][\A p \in Procs :
          ( /\ Returns(p)
            /\ calls'[p].op = "clear"
            /\ calls'[p].overlap = {} )
          => /\ _cache' = EmptyMap
             /\ _access_order' = <<>>
             /\ calls'[p].res = Returned(NoneV)
             /\ calls'[p].rlog = <<>> => store' = store
             /\ ( /\ calls'[p].rlog # <<>>
                  /\ calls'[p].rlog[1].ready
                  /\ ~calls'[p].rlog[1].failed )
                => \A k \in Keys :
                      LiveIn(store', now', k) <=> (Live(k) /\ ~Match(calls[p].pattern, k))]_vars

C18_Witness ==
    \E p \in Procs :
        /\ calls[p].pc = "done" /\ calls[p].op = "clear" /\ calls[p].overlap = {}
        /\ calls[p].rlog # <<>> /\ calls[p].rlog[1].ret = "1"
        /\ _cache = EmptyMap
        /\ Live("b") /\ ~Live("a")
        /\ _stats.sets >= 1

\* C19: with N concurrent get_or_compute calls for the same uncached key the
\* reported dedup count is N-1; once a second call has been issued while the
\* first is pending, the count of callers that joined is 1.
C19_DedupCount ==
    \A p, q \in Procs :
        ( /\ p < q
          /\ calls[p].op = "get_or_compute" /\ calls[q].op = "get_or_compute"
          /\ calls[p].key = calls[q].key
          /\ q \in calls[p].overlap /\ p \in calls[q].overlap
          /\ calls[p].absent0 /\ calls[q].absent0 )
        => get_stats.total_waiting = 1

\* ================================================== claims: MemoryCache
\* the keys the last call removed from the store
Evicted == (DOMAIN memcall.before.cache \cup {memcall.key}) \ DOMAIN _cache

\* C15: when set evicts, every key it removes was used (set, or read with a
\* hit) before every key it keeps, and the key just set is kept.
C15_StrictLRU ==
    (memcall.op = "set" /\ Evicted # {})
    => /\ ~memcall.raised
       /\ memcall.key \notin Evicted
       /\ \A e \in Evicted : \A s \in DOMAIN _cache : memcall.used[e] < memcall.used[s]

\* set A, set B, get A, set C: B is evicted, A and C are kept
C15_Witness ==
    /\ memcall.op = "set" /\ memcall.key = "C"
    /\ DOMAIN memcall.before.cache = {"A", "B"}
    /\ memcall.used["A"] > memcall.used["B"]
    /\ DOMAIN _cache = {"A", "C"}

\* C16: after every operation the store holds at most maxsize entries, and a
\* set of a stored key overwrites it and evicts no other key.
C16_Bounded ==
    /\ Cardinality(DOMAIN _cache) <= MemMaxsize
    /\ ~memcall.raised
    /\ (memcall.op = "set" /\ memcall.key \in DOMAIN memcall.before.cache)
       => /\ DOMAIN _cache = DOMAIN memcall.before.cache
          /\ \A k \in DOMAIN _cache \ {memcall.key} : _cache[k] = memcall.before.cache[k]
          /\ _cache[memcall.key].value = memcall.value
          /\ _cache[memcall.key].ttl = memcall.ttl

C16_Witness ==
    /\ memcall.op = "set" /\ memcall.key \in DOMAIN memcall.before.cache
    /\ Cardinality(DOMAIN memcall.before.cache) = MemMaxsize
    /\ _cache[memcall.key].value # memcall.before.cache[memcall.key].value
    /\ memcall.n = MaxMemOps

\* C17: get(k) returns the stored value, and moves k to the recent end of the
\* order, exactly when k is stored and now - timestamp <= ttl; when k is
\* stored and now - timestamp > ttl it returns None and removes k from the
\* store and from the order; the passage of time alone changes neither.
C17_LazyTtl ==
    [][/\ (memcall'.n = memcall.n + 1 /\ memcall'.op = "get")
          => LET k == memcall'.key
             IN  IF Fresh(_cache, k, now)
                 THEN /\ memcall'.ret = _cache[k].value
                      /\ _cache' = _cache
                      /\ _access_order' =
                            Append(SelectSeq(_access_order, LAMBDA x : x # k), k)
                 ELSE /\ memcall'.ret = NoneV
                      /\ k \notin DOMAIN _cache'
                      /\ ~InList(_access_order', k)
                      /\ \A j \in DOMAIN _cache \ {k} :
                            j \in DOMAIN _cache' /\ _cache'[j] = _cache[j]
       /\ now' # now => (_cache' = _cache /\ _access_order' = _access_order)]_vars

\* a get has removed an expired key while another expired key is still stored
C17_Witness ==
    /\ memcall.op = "get"
    /\ memcall.key \in DOMAIN memcall.before.cache
    /\ memcall.key \notin DOMAIN _cache
    /\ \E j \in DOMAIN _cache : ~Fresh(_cache, j, now)

\* ===================================================== claims: CacheKey
\* the orders in which a call site can write the keyword arguments s
Perms(s) ==
    {t \in [1..Len(s) -> {s[i] : i \in 1..Len(s)}] :
        \A i, j \in 1..Len(s) : i # j => t[i] # t[j]}

\* C20: every call-site order of the keyword arguments yields the same key,
\* and the key is the prefix, then the positional parts in their order, then
\* the name=value parts in increasing order of their names.
C20_KwargOrder ==
    keygen.called
    => /\ \A t \in Perms(keygen.kwargs) :
             generate(keygen.prefix, keygen.args, t) = keygen.key
       /\ \E t \in Perms(keygen.kwargs) :
             /\ \A i, j \in 1..Len(t) : i < j => StrLess(t[i][1], t[j][1])
             /\ keygen.key =
                   Join(<<normalize(keygen.prefix)>>
                        \o [i \in 1..Len(keygen.args) |-> normalize(ArgPart(keygen.args[i]))]
                        \o [i \in 1..Len(t) |-> normalize(KwPart(t[i]))])

C20_Witness ==
    /\ keygen.called
    /\ Len(keygen.kwargs) = 3
    /\ StrLess(keygen.kwargs[2][1], keygen.kwargs[1][1])
    /\ Len(keygen.args) = 2

\* ================================ claims: ResponseCache under concurrency
\* the value caller r gets back when it reads what caller w computed
ReadBack(w) == {calls[w].out, JsonLoads(JsonDumps(calls[w].out))}

\* C21: a get_or_compute(k) call r that starts after invalidate(k), call i,
\* has returned never returns from a tier a value that a call w had computed
\* before i began, whether w had finished by then or was still in flight.
C21_NoStaleAfterInvalidate ==
    \A w, i, r \in Callers :
        ( /\ calls[i].op = "invalidate" /\ calls[i].pc = "done"
          /\ calls[r].op = "get_or_compute" /\ calls[r].pc = "done"
          /\ calls[w].op = "get_or_compute" /\ w # r
          /\ calls[w].key = calls[i].key /\ calls[r].key = calls[i].key
          /\ i < r /\ i \notin calls[r].overlap
          /\ calls[w].out \in Values
          /\ \/ w \in calls[i].computed0
             \/ w < i /\ w \notin calls[i].overlap
          /\ \A x \in Callers \ {w} : calls[x].out # calls[w].out )
        => ~( /\ calls[r].path \in {"memory", "redis"}
              /\ calls[r].res.kind = "value"
              /\ calls[r].res.v \in ReadBack(w) )

\* C23: once startup has run its connect() and the Redis server is
\* reachable, every RedisCache.get and set passes the connection guard, and
\* every get reaches the server, whether connect() had succeeded or failed.
C23_RecoversAfterOutage ==
    [][\A p \in Procs :
          ( /\ Len(calls'[p].rlog) = Len(calls[p].rlog) + 1
            /\ calls'[p].rlog[Len(calls'[p].rlog)].op \in {"get", "set"}
            /\ REDIS_AVAILABLE
            /\ startup.pc = "done"
            /\ store_up )
          => LET o == calls'[p].rlog[Len(calls'[p].rlog)]
             IN  /\ o.ready
                 /\ o.op = "get" => o.contacted]_vars

\* C24: when DELETE /api/cache/clear answers with status ok and the message
\* 'Cache cleared successfully', the memory tier holds no entries.
C24_EndpointClears ==
    [][( /\ http'.n = http.n + 1
         /\ http'.status = "ok"
         /\ http'.message = "Cache cleared successfully" )
       => _cache' = EmptyMap /\ _access_order' = <<>>]_vars

\* C27: no step decreases a counter except the return of clear(), and when
\* clear() returns the counters read zero.
C27_ResetOnlyByClear ==
    [][/\ (\A p \in Procs : ~(Returns(p) /\ calls'[p].op = "clear"))
          => /\ _stats'.hits_memory >= _stats.hits_memory
             /\ _stats'.hits_redis >= _stats.hits_redis
             /\ _stats'.misses >= _stats.misses
             /\ _stats'.sets >= _stats.sets
       /\ (\E p \in Procs : Returns(p) /\ calls'[p].op = "clear")
          => _stats' = [hits_memory |-> 0, hits_redis |-> 0, misses |-> 0, sets |-> 0]]_vars

\* the get_or_compute calls whose compute_fn, or the Redis write after it, is
\* in progress, those whose compute_fn failed, and those past the tier lookups
Computing == {p \in Procs : calls[p].op = "get_or_compute"
                            /\ calls[p].pc \in {"compute", "redis_set"}}
ComputeFailed == {p \in Procs : calls[p].op = "get_or_compute" /\ calls[p].pc = "done"
                                /\ calls[p].res = ComputeError}
LookedUp == {p \in Procs : calls[p].op = "get_or_compute" /\ calls[p].pc # "redis_get"}

\* C29: sets <= misses; misses - sets is the number of get_or_compute calls
\* that are computing (or writing to Redis) or whose compute_fn failed; the
\* hits and the misses add up to the calls that have finished their lookups.
C29_CounterBalance ==
    /\ stats.sets <= stats.misses
    /\ stats.misses - stats.sets = Cardinality(Computing \cup ComputeFailed)
    /\ stats.hits.memory + stats.hits.redis + stats.misses = Cardinality(LookedUp)
    /\ stats.total_requests = Cardinality(LookedUp)

C29_Witness ==
    /\ Computing # {} /\ ComputeFailed # {}
    /\ stats.misses - stats.sets = 2

\* ====================================== claims: RequestDeduplicator, later
\* async_fn of task t was started and has neither returned nor raised
Hung(t) == tasks[t].started /\ tasks[t].result.kind \notin {"value", "exc"}

\* C22: while the async_fn started for k has not completed, k stays in the
\* registry, a waiter's timeout does not remove it, and a caller on k ends
\* only as a waiter whose own timeout elapsed.
C22_HungKeyStays ==
    \A t \in 1..Len(tasks) :
        Hung(t)
        => /\ tasks[t].key \in DOMAIN _pending_requests
           /\ _pending_requests[tasks[t].key] = t
           /\ \A p \in CallersOf(t) :
                 dcalls[p].pc = "done"
                 => /\ dcalls[p].role = "waiter"
                    /\ dcalls[p].timed_out
                    /\ dcalls[p].res = TimedOut

\* no deduplicate call is outstanding
Quiescent == \A p \in DProcs : dcalls[p].pc \in {"idle", "done"}

\* C25: every deduplicate call that was made returns or raises, and whenever
\* no call is outstanding the registry and the waiting counts are empty.
C25_Termination ==
    /\ \A p \in DProcs : (dcalls[p].pc # "idle") ~> (dcalls[p].pc = "done")
    /\ [](Quiescent => _pending_requests = EmptyMap /\ _request_counts = EmptyMap)

\* the callers waiting on the computation registered for k
Waiting(k) ==
    {p \in DProcs :
        /\ dcalls[p].role = "waiter"
        /\ dcalls[p].pc \in {"wait_for", "cancel_wait"}
        /\ dcalls[p].key = k
        /\ k \in DOMAIN _pending_requests
        /\ _pending_requests[k] = dcalls[p].task}

WaitingCount(k) == IF k \in DOMAIN _request_counts THEN _request_counts[k] ELSE 0

\* C26: after every step the waiting count of each key is the number of
\* callers waiting on the computation in progress for it, and a waiter whose
\* computation is no longer the registered one leaves the counts alone.
C26_WaitingCount ==
    [][/\ \A k \in Keys : WaitingCount(k)' = Cardinality(Waiting(k))'
       /\ get_stats'.total_waiting = Cardinality(UNION {Waiting(k) : k \in Keys})'
       /\ \A p \in DProcs :
             ( /\ dcalls[p].pc \in {"wait_for", "cancel_wait"}
               /\ dcalls'[p].pc = "done"
               /\ \/ dcalls[p].key \notin DOMAIN _pending_requests
                  \/ _pending_requests[dcalls[p].key] # dcalls[p].task )
             => _request_counts' = _request_counts]_vars

\* ================================================ claims: CacheKey, later
Primitive(args, kwargs) ==
    /\ \A i \in 1..Len(args) : args[i].type \in {"str", "int", "float"}
    /\ \A i \in 1..Len(kwargs) : kwargs[i][2].type \in {"str", "int", "float"}

ItemSet(kwargs) == {kwargs[i] : i \in 1..Len(kwargs)}

\* C28: two calls with the same prefix and primitive arguments that differ in
\* count, position or value, or in passing a part positionally or by name,
\* get different keys.
C28_Injective ==
    (keygen.called /\ Primitive(keygen.args, keygen.kwargs))
    => \A args \in PosArgs : \A kwargs \in Kwargs :
          ( /\ Primitive(args, kwargs)
            /\ args # keygen.args \/ ItemSet(kwargs) # ItemSet(keygen.kwargs) )
          => generate(keygen.prefix, args, kwargs) # keygen.key

\* ============================================= claims: MemoryCache, later
\* C30: _access_order holds exactly the keys of _cache, each once, and the
\* eviction loop of set has never popped from an empty list.
C30_OrderMatchesStore ==
    /\ {_access_order[i] : i \in 1..Len(_access_order)} = DOMAIN _cache
    /\ \A i, j \in 1..Len(_access_order) : i # j => _access_order[i] # _access_order[j]
    /\ Len(_access_order) = Cardinality(DOMAIN _cache)
    /\ ~memcall.raised

C30_Witness ==
    /\ memcall.op = "set"
    /\ Evicted # {}
    /\ Len(_access_order) = MemMaxsize
    /\ Len(memcall.before.order) = MemMaxsize
    /\ _access_order[1] # memcall.before.order[1]

====
